---- MODULE Spec2Model ----
(***************************************************************************)
(* A model of src/app.py, the stock analysis dashboard: the two number     *)
(* formatters, the data fetcher, the key-metrics table, the moving-average *)
(* derivation and the script that the UI framework re-runs on every widget *)
(* interaction.                                                            *)
(*                                                                         *)
(* Python values are tagged records (None, NaN, strings, numbers).  A      *)
(* number is a sign, the decimal digits of its magnitude and a scale (the  *)
(* number of digits after the decimal point), so that market               *)
(* capitalisations above 2^31 are representable and so that formatting is  *)
(* done digit by digit, as a conversion and not as the identity.           *)
(***************************************************************************)
EXTENDS Integers, Sequences, FiniteSets, TLC

VARIABLES
    value,           \* formatter harness: the argument of format_currency / format_number
    currency_out,    \* formatter harness: outcome of format_currency(value)
    number_out,      \* formatter harness: outcome of format_number(value)
    last_symbol,     \* st.session_state.last_symbol (NoSymbol when the key is not set)
    stock_symbol,    \* the sidebar text input of the current run, upper-cased
    selected_period, \* the sidebar select box of the current run
    analyze_button,  \* the sidebar button of the current run
    show_raw,        \* the "Show Raw Historical Data" checkbox of the current run
    pc,              \* position of the script run
    info,            \* first component of get_stock_data's result / display_key_metrics' argument
    hist_data,       \* second component of get_stock_data's result (a data frame)
    error,           \* third component of get_stock_data's result
    client,          \* what the external client did in this run
    page,            \* the elements rendered by the current run, in order
    metrics_df,      \* outcome of display_key_metrics(info)
    download,        \* the CSV download offered by the current run
    rendered_pair    \* history: (symbol, period) of the last run that rendered results

vars == <<value, currency_out, number_out, last_symbol, stock_symbol, selected_period,
          analyze_button, show_raw, pc, info, hist_data, error, client, page,
          metrics_df, download, rendered_pair>>

fmtVars == <<value, currency_out, number_out>>
appVars == <<last_symbol, stock_symbol, selected_period, analyze_button, show_raw, pc,
             info, hist_data, error, client, page, metrics_df, download, rendered_pair>>

----------------------------------------------------------------------------
(* Bounds of the model *)

MaxDigits == 14      \* formatter inputs have at most this many integer digits
MaxAppRows == 2      \* the client's series in the script's runs have at most this many records
MaxMissing == 2      \* metadata mappings lack (or have) at most this many of the metric fields
MaxRows == 52        \* the series of the moving-average harness have at most this many records

----------------------------------------------------------------------------
(* Python values *)

PyNone == [t |-> "None"]
PyNaN == [t |-> "nan"]
PyStr(s) == [t |-> "str", s |-> s]
\* |v| = ds read as a decimal integer, divided by 10^sc; Len(ds) > sc
PyNum(neg, ds, sc) == [t |-> "num", neg |-> neg, ds |-> ds, sc |-> sc]

NA == PyStr("N/A")

IsNum(v) == v.t = "num"

\* Outcome of a call: a returned string, or the exception that left it
Returned(s) == [exc |-> "", val |-> s]
Raised(e) == [exc |-> e, val |-> ""]
Pending == [exc |-> "pending", val |-> ""]

----------------------------------------------------------------------------
(* Decimal arithmetic on digit sequences *)

DigitChar == <<"0", "1", "2", "3", "4", "5", "6", "7", "8", "9">>

RECURSIVE StripZeros(_)
StripZeros(ds) ==
    IF Len(ds) > 1 /\ ds[1] = 0 THEN StripZeros(Tail(ds)) ELSE ds

RECURSIVE Zeros(_)
Zeros(n) == IF n <= 0 THEN <<>> ELSE <<0>> \o Zeros(n - 1)

\* the digits of the number that follows ds
RECURSIVE Incr(_)
Incr(ds) ==
    IF ds = <<>> THEN <<1>>
    ELSE IF ds[Len(ds)] = 9 THEN Incr(SubSeq(ds, 1, Len(ds) - 1)) \o <<0>>
    ELSE SubSeq(ds, 1, Len(ds) - 1) \o <<ds[Len(ds)] + 1>>

AllZero(ds) == \A i \in 1..Len(ds) : ds[i] = 0

\* the digits of the integer part of |v|, without leading zeros
IntDigits(v) == StripZeros(SubSeq(v.ds, 1, Len(v.ds) - v.sc))

IsZero(v) == AllZero(v.ds)

\* abs(v) >= 10^k
AbsGE10(v, k) == Len(IntDigits(v)) >= k + 1

\* v / 10^k: the decimal point moves k places to the left
Div10(v, k) ==
    [v EXCEPT !.ds = Zeros(v.sc + k + 1 - Len(v.ds)) \o v.ds, !.sc = v.sc + k]

\* Rounding to two decimals: keep holds the digits down to the hundredths,
\* rest the digits after them.  The remainder is compared with one half; a
\* remainder of exactly one half goes to the even neighbour (a binary float
\* is never exactly on such a half unless the decimal is representable, and
\* the numbers formatted here have no remainder of exactly one half).
RoundsUp(keep, rest) ==
    \/ rest[1] > 5
    \/ rest[1] = 5 /\ ~AllZero(Tail(rest))
    \/ rest[1] = 5 /\ AllZero(Tail(rest)) /\ keep[Len(keep)] % 2 = 1

RoundSplit(keep, rest) == IF RoundsUp(keep, rest) THEN Incr(keep) ELSE keep

\* |v| rounded to two decimals, as the digits of hundredths
Round2(v) ==
    IF v.sc <= 2 THEN v.ds \o Zeros(2 - v.sc)
    ELSE RoundSplit(SubSeq(v.ds, 1, Len(v.ds) - (v.sc - 2)),
                    SubSeq(v.ds, Len(v.ds) - (v.sc - 2) + 1, Len(v.ds)))

RECURSIVE DigitsToStr(_)
DigitsToStr(ds) ==
    IF ds = <<>> THEN "" ELSE DigitChar[ds[1] + 1] \o DigitsToStr(Tail(ds))

\* the "," option of the format specification: groups of three from the right
RECURSIVE Grouped(_)
Grouped(ds) ==
    IF Len(ds) <= 3 THEN DigitsToStr(ds)
    ELSE Grouped(SubSeq(ds, 1, Len(ds) - 3)) \o ","
         \o DigitsToStr(SubSeq(ds, Len(ds) - 2, Len(ds)))

\* the text of h hundredths: sign, integer part, point, two decimals
FixedText(h, neg, comma) ==
    (IF neg THEN "-" ELSE "")
    \o (IF comma THEN Grouped(StripZeros(SubSeq(h, 1, Len(h) - 2)))
        ELSE DigitsToStr(StripZeros(SubSeq(h, 1, Len(h) - 2))))
    \o "." \o DigitsToStr(SubSeq(h, Len(h) - 1, Len(h)))

\* f"{v:.2f}" (comma = FALSE) and f"{v:,.2f}" (comma = TRUE)
Fixed2(v, comma) == FixedText(Round2(v), v.neg, comma)

----------------------------------------------------------------------------
(* Formatter: src/app.py lines 48-74 *)

\* pd.isna(value) or value is None
IsNA(v) == v.t = "nan" \/ v.t = "None"

\* the ladder tried from its lowest threshold upwards
format_currency_ascending(v) ==
    IF IsNA(v) THEN Returned("N/A")
    ELSE IF ~IsNum(v) THEN Raised("TypeError")
    ELSE IF AbsGE10(v, 6) THEN Returned("$" \o Fixed2(Div10(v, 6), FALSE) \o "M")
    ELSE IF AbsGE10(v, 9) THEN Returned("$" \o Fixed2(Div10(v, 9), FALSE) \o "B")
    ELSE IF AbsGE10(v, 12) THEN Returned("$" \o Fixed2(Div10(v, 12), FALSE) \o "T")
    ELSE Returned("$" \o Fixed2(v, TRUE))

format_currency(v) ==
    IF IsNA(v) THEN Returned("N/A")
    ELSE IF ~IsNum(v) THEN Raised("TypeError")        \* abs() of a str
    ELSE IF AbsGE10(v, 12) THEN Returned("$" \o Fixed2(Div10(v, 12), FALSE) \o "T")
    ELSE IF AbsGE10(v, 9) THEN Returned("$" \o Fixed2(Div10(v, 9), FALSE) \o "B")
    ELSE IF AbsGE10(v, 6) THEN Returned("$" \o Fixed2(Div10(v, 6), FALSE) \o "M")
    ELSE Returned("$" \o Fixed2(v, TRUE))

format_number(v) ==
    IF IsNA(v) THEN Returned("N/A")
    ELSE IF ~IsNum(v) THEN Raised("TypeError")        \* abs() of a str
    ELSE IF AbsGE10(v, 9) THEN Returned(Fixed2(Div10(v, 9), FALSE) \o "B")
    ELSE IF AbsGE10(v, 6) THEN Returned(Fixed2(Div10(v, 6), FALSE) \o "M")
    ELSE IF AbsGE10(v, 3) THEN Returned(Fixed2(Div10(v, 3), FALSE) \o "K")
    ELSE Returned(Fixed2(v, TRUE))

----------------------------------------------------------------------------
(* Small-number arithmetic: prices are numbers of scale 2 that fit an integer *)

RECURSIVE DigitsToInt(_)
DigitsToInt(ds) ==
    IF ds = <<>> THEN 0 ELSE 10 * DigitsToInt(SubSeq(ds, 1, Len(ds) - 1)) + ds[Len(ds)]

RECURSIVE IntToDigits(_)
IntToDigits(n) == IF n < 10 THEN <<n>> ELSE IntToDigits(n \div 10) \o <<n % 10>>

Abs(n) == IF n < 0 THEN -n ELSE n

\* the number n / 10^sc
FromInt(n, sc) ==
    PyNum(n < 0, Zeros(sc + 1 - Len(IntToDigits(Abs(n)))) \o IntToDigits(Abs(n)), sc)

\* v * 10^v.sc as an integer
ToInt(v) == IF v.neg THEN -DigitsToInt(v.ds) ELSE DigitsToInt(v.ds)

\* a - b for two numbers of the same scale
Sub(a, b) == FromInt(ToInt(a) - ToInt(b), a.sc)

\* the quotient n / d, d # 0, kept exact
PyRatio(n, d) == [t |-> "ratio", n |-> n, d |-> d]

\* n / d rounded to an integer, half to even (n >= 0, d > 0)
HalfEven(n, d) ==
    IF 2 * (n % d) > d \/ (2 * (n % d) = d /\ (n \div d) % 2 = 1)
    THEN n \div d + 1
    ELSE n \div d

\* f"{q:.2f}" of a quotient: round(|n| * 100 / |d|) hundredths
Fixed2Ratio(q) ==
    Fixed2([FromInt(HalfEven(Abs(q.n) * 100, Abs(q.d)), 2)
               EXCEPT !.neg = (q.n < 0) # (q.d < 0) /\ q.n # 0], FALSE)

\* str() of a number: a float of scale > 0 keeps at least one decimal
RECURSIVE StripTrailing(_)
StripTrailing(ds) ==
    IF Len(ds) > 1 /\ ds[Len(ds)] = 0 THEN StripTrailing(SubSeq(ds, 1, Len(ds) - 1)) ELSE ds

PyStrOf(v) ==
    IF v.t = "str" THEN v.s
    ELSE IF v.t = "None" THEN "None"
    ELSE IF v.t = "nan" THEN "nan"
    ELSE (IF v.neg THEN "-" ELSE "")
         \o DigitsToStr(IntDigits(v))
         \o (IF v.sc = 0 THEN ""
             ELSE "." \o DigitsToStr(StripTrailing(SubSeq(v.ds, Len(v.ds) - v.sc + 1, Len(v.ds)))))

\* v * 100
Times100(v) ==
    IF v.sc >= 2 THEN [v EXCEPT !.sc = v.sc - 2]
    ELSE [v EXCEPT !.ds = v.ds \o Zeros(2 - v.sc), !.sc = 0]

----------------------------------------------------------------------------
(* Metadata mappings (dict) *)

\* info.get(k, default)
Get(m, k, default) == IF k \in DOMAIN m THEN m[k] ELSE default

\* info.get(k)
Get1(m, k) == Get(m, k, PyNone)

\* truth value of a Python value
Truthy(v) ==
    CASE v.t = "None" -> FALSE
      [] v.t = "str" -> v.s # ""
      [] v.t = "nan" -> TRUE
      [] v.t = "num" -> ~IsZero(v)
      [] v.t = "dict" -> DOMAIN v.d # {}

\* x != 'N/A'
NotNA(v) == ~(v.t = "str" /\ v.s = "N/A")

Restrict(m, S) == [k \in S |-> m[k]]

MetricFields ==
    {"currentPrice", "regularMarketPrice", "previousClose", "dayLow", "dayHigh",
     "fiftyTwoWeekLow", "fiftyTwoWeekHigh", "volume", "averageVolume", "marketCap",
     "enterpriseValue", "trailingPE", "forwardPE", "priceToBook",
     "priceToSalesTrailing12Months", "dividendYield", "beta", "trailingEps",
     "totalRevenue", "profitMargins", "operatingMargins"}

CompanyFields ==
    {"longName", "sector", "industry", "country", "website", "fullTimeEmployees",
     "exchange", "currency", "longBusinessSummary"}

----------------------------------------------------------------------------
(* Metrics deriver: src/app.py lines 119-191 *)

MetricLabels ==
    <<"Current Price", "Previous Close", "Price Change", "Price Change (%)",
      "Day Range", "52 Week Range", "Volume", "Average Volume", "Market Cap",
      "Enterprise Value", "P/E Ratio", "Forward P/E", "Price to Book",
      "Price to Sales", "Dividend Yield", "Beta", "EPS (TTM)", "Revenue (TTM)",
      "Profit Margin", "Operating Margin">>

\* line 124
CurrentPrice(m) == Get(m, "currentPrice", Get(m, "regularMarketPrice", NA))

\* line 125
PreviousClose(m) == Get(m, "previousClose", NA)

\* line 128
BothPrices(m) == NotNA(CurrentPrice(m)) /\ NotNA(PreviousClose(m))

\* lines 129, 132
PriceChange(m) ==
    IF BothPrices(m) THEN Sub(CurrentPrice(m), PreviousClose(m)) ELSE NA

\* lines 130, 133: (price_change / previous_close) * 100, for previous_close # 0
PriceChangePct(m) ==
    IF BothPrices(m)
    THEN PyRatio(ToInt(PriceChange(m)) * 100, ToInt(PreviousClose(m)))
    ELSE NA

\* lines 163-164: f"${low} - ${high}" if info.get(low) and info.get(high) else 'N/A'
RangeRow(m, low, high) ==
    IF Truthy(Get1(m, low)) /\ Truthy(Get1(m, high))
    THEN "$" \o PyStrOf(Get(m, low, NA)) \o " - $" \o PyStrOf(Get(m, high, NA))
    ELSE "N/A"

\* lines 169-172, 174-175: f"{prefix}{info.get(k, 'N/A'):.2f}" if info.get(k) else 'N/A'
RatioRow(m, k, prefix) ==
    IF Truthy(Get1(m, k)) THEN prefix \o Fixed2(Get(m, k, NA), FALSE) ELSE "N/A"

\* lines 173, 177-178: f"{info.get(k, 0) * 100:.2f}%" if info.get(k) else 'N/A'
PercentRow(m, k) ==
    IF Truthy(Get1(m, k))
    THEN Fixed2(Times100(Get(m, k, FromInt(0, 0))), FALSE) \o "%"
    ELSE "N/A"

\* lines 158-179: the 'Value' list, each element the outcome of its expression
MetricCells(m) ==
    << Returned(IF NotNA(CurrentPrice(m))
                THEN "$" \o Fixed2(CurrentPrice(m), FALSE) ELSE "N/A"),
       Returned(IF NotNA(PreviousClose(m))
                THEN "$" \o Fixed2(PreviousClose(m), FALSE) ELSE "N/A"),
       Returned(IF NotNA(PriceChange(m))
                THEN "$" \o Fixed2(PriceChange(m), FALSE) ELSE "N/A"),
       Returned(IF NotNA(PriceChangePct(m))
                THEN Fixed2Ratio(PriceChangePct(m)) \o "%" ELSE "N/A"),
       Returned(RangeRow(m, "dayLow", "dayHigh")),
       Returned(RangeRow(m, "fiftyTwoWeekLow", "fiftyTwoWeekHigh")),
       format_number(Get(m, "volume", NA)),
       format_number(Get(m, "averageVolume", NA)),
       format_currency(Get(m, "marketCap", NA)),
       format_currency(Get(m, "enterpriseValue", NA)),
       Returned(RatioRow(m, "trailingPE", "")),
       Returned(RatioRow(m, "forwardPE", "")),
       Returned(RatioRow(m, "priceToBook", "")),
       Returned(RatioRow(m, "priceToSalesTrailing12Months", "")),
       Returned(PercentRow(m, "dividendYield")),
       Returned(RatioRow(m, "beta", "")),
       Returned(RatioRow(m, "trailingEps", "$")),
       format_currency(Get(m, "totalRevenue", NA)),
       Returned(PercentRow(m, "profitMargins")),
       Returned(PercentRow(m, "operatingMargins")) >>

\* the exception of the first element that raises, "" when none does
RECURSIVE FirstExc(_)
FirstExc(cells) ==
    IF cells = <<>> THEN ""
    ELSE IF Head(cells).exc # "" THEN Head(cells).exc
    ELSE FirstExc(Tail(cells))

NoTable == <<>>

\* line 182: the table of the labels and the values
MetricsTable(cells) ==
    [exc |-> "",
     table |-> [i \in 1..Len(MetricLabels) |-> <<MetricLabels[i], cells[i].val>>]]

TableUnless(exc, cells) ==
    IF exc # "" THEN [exc |-> exc, table |-> NoTable] ELSE MetricsTable(cells)

\* The outcome of display_key_metrics(info): the exception that leaves it, or
\* the 20-row table (label, value) handed to st.dataframe.
display_key_metrics(m) ==
    IF BothPrices(m) /\ ToInt(PreviousClose(m)) = 0
    THEN [exc |-> "ZeroDivisionError", table |-> NoTable]      \* line 130
    ELSE TableUnless(FirstExc(MetricCells(m)), MetricCells(m))

\* Values of a typical quote
FullInfo ==
    [currentPrice |-> FromInt(15000, 2),
     regularMarketPrice |-> FromInt(14950, 2),
     previousClose |-> FromInt(14500, 2),
     dayLow |-> FromInt(14430, 2),
     dayHigh |-> FromInt(15125, 2),
     fiftyTwoWeekLow |-> FromInt(12000, 2),
     fiftyTwoWeekHigh |-> FromInt(19962, 2),
     volume |-> FromInt(52000000, 0),
     averageVolume |-> FromInt(60500000, 0),
     marketCap |-> PyNum(FALSE, <<2, 5>> \o Zeros(11), 0),
     enterpriseValue |-> PyNum(FALSE, <<2, 6, 1>> \o Zeros(10), 0),
     trailingPE |-> FromInt(2850, 2),
     forwardPE |-> FromInt(2513, 2),
     priceToBook |-> FromInt(4520, 2),
     priceToSalesTrailing12Months |-> FromInt(750, 2),
     dividendYield |-> FromInt(45, 4),
     beta |-> FromInt(120, 2),
     trailingEps |-> FromInt(613, 2),
     totalRevenue |-> PyNum(FALSE, <<3, 9>> \o Zeros(10), 0),
     profitMargins |-> FromInt(2531, 4),
     operatingMargins |-> FromInt(3013, 4),
     longName |-> PyStr("Apple Inc."),
     sector |-> PyStr("Technology"),
     industry |-> PyStr("Consumer Electronics"),
     country |-> PyStr("United States"),
     website |-> PyStr("https://www.apple.com"),
     fullTimeEmployees |-> FromInt(164000, 0),
     exchange |-> PyStr("NMS"),
     currency |-> PyStr("USD"),
     longBusinessSummary |-> PyStr("Apple Inc. designs smartphones.")]

----------------------------------------------------------------------------
(* Price series (data frame).  A frame has its column names in order, an   *)
(* index of dates (day ordinals) and one sequence of cells per column.  A  *)
(* cell is NaN, an integer, or a float kept as the exact quotient n / d of  *)
(* hundredths.                                                             *)

NaNCell == [kind |-> "nan", n |-> 0, d |-> 1]
FloatCell(n, d) == [kind |-> "float", n |-> n, d |-> d]
IntCell(n) == [kind |-> "int", n |-> n, d |-> 1]

DataFrame(columns, index, col) ==
    [t |-> "DataFrame", columns |-> columns, index |-> index, col |-> col]

\* hist_data.empty
FrameEmpty(f) == Len(f.index) = 0

\* hist_data[name] = cells: a new column is appended, an existing one replaced
SetColumn(f, name, cells) ==
    [f EXCEPT !.columns = IF \E i \in 1..Len(@) : @[i] = name THEN @ ELSE Append(@, name),
              !.col = [c \in DOMAIN @ \cup {name} |-> IF c = name THEN cells ELSE @[c]]]

\* sum of the window of at most w cells that ends at index i, maintained as
\* a sliding window does: the entering cell is added, the leaving one removed
RECURSIVE WindowSum(_, _, _)
WindowSum(xs, w, i) ==
    IF i = 0 THEN 0
    ELSE WindowSum(xs, w, i - 1) + xs[i].n - (IF i > w THEN xs[i - w].n ELSE 0)

\* number of observations in that window
WindowObs(w, i) == IF i < w THEN i ELSE w

\* a rolling mean with min_periods=1: the mean of the cells there are
RollingMeanPartial(xs, w) ==
    [i \in 1..Len(xs) |-> FloatCell(WindowSum(xs, w, i), WindowObs(w, i))]

\* series.rolling(window=w).mean(): min_periods defaults to the window, so a
\* window with fewer than w observations gives NaN
RollingMean(xs, w) ==
    [i \in 1..Len(xs) |->
        IF WindowObs(w, i) >= w THEN FloatCell(WindowSum(xs, w, i), WindowObs(w, i))
        ELSE NaNCell]

MA20Window == 20
MA50Window == 50

\* hist_data[name] = hist_data['Close'].rolling(window=w).mean()
AddMovingAverage(f, name, w) == SetColumn(f, name, RollingMean(f.col["Close"], w))

\* lines 246-247: the two columns are written into the frame that was passed in
WithMovingAverages(f) ==
    AddMovingAverage(AddMovingAverage(f, "MA20", MA20Window), "MA50", MA50Window)

Element(kind, body) == [kind |-> kind, body |-> body]

\* lines 193-216
create_price_chart(f, symbol) ==
    << Element("subheader", "Price Chart - " \o symbol),
       Element("plotly_chart",
               [title |-> symbol \o " Stock Price",
                traces |-> << [type |-> "candlestick", x |-> f.index,
                               open |-> f.col["Open"], high |-> f.col["High"],
                               low |-> f.col["Low"], close |-> f.col["Close"]] >>]) >>

\* lines 218-239
create_volume_chart(f, symbol) ==
    << Element("subheader", "Trading Volume - " \o symbol),
       Element("plotly_chart",
               [title |-> symbol \o " Trading Volume",
                traces |-> << [type |-> "bar", x |-> f.index, y |-> f.col["Volume"]] >>]) >>

\* lines 249-285, for the frame g that holds the two new columns
MovingAveragesFigure(g, symbol) ==
    << Element("subheader", "Moving Averages - " \o symbol),
       Element("plotly_chart",
               [title |-> symbol \o " Price with Moving Averages",
                traces |-> << [type |-> "scatter", x |-> g.index, y |-> g.col["Close"]],
                              [type |-> "scatter", x |-> g.index, y |-> g.col["MA20"]],
                              [type |-> "scatter", x |-> g.index, y |-> g.col["MA50"]] >>]) >>

\* lines 241-285: the elements shown; the frame is left as WithMovingAverages(f)
create_moving_averages_chart(f, symbol) == MovingAveragesFigure(WithMovingAverages(f), symbol)

\* text of a cell in the CSV: NaN is the empty field, an integer its digits,
\* a float its decimal expansion (hundredths n / d, cut after 12 decimals)
RECURSIVE Expand(_, _, _)
Expand(r, d, k) ==
    IF k = 0 \/ r = 0 THEN <<>> ELSE <<(r * 10) \div d>> \o Expand((r * 10) % d, d, k - 1)

\* the decimals of r / d, "0" when there are none
Decimals(r, d) == IF r = 0 THEN "0" ELSE DigitsToStr(Expand(r, d, 12))

CellText(c) ==
    IF c.kind = "nan" THEN ""
    ELSE IF c.kind = "int" THEN (IF c.n < 0 THEN "-" ELSE "") \o DigitsToStr(IntToDigits(Abs(c.n)))
    ELSE (IF c.n < 0 THEN "-" ELSE "")
         \o DigitsToStr(IntToDigits(Abs(c.n) \div (100 * c.d))) \o "."
         \o Decimals(Abs(c.n) % (100 * c.d), 100 * c.d)

RECURSIVE Join(_)
Join(fields) ==
    IF fields = <<>> THEN ""
    ELSE IF Len(fields) = 1 THEN fields[1]
    ELSE fields[1] \o "," \o Join(Tail(fields))

\* hist_data.to_csv(): a header line, then one line per record
to_csv(f) ==
    << Join(<<"Date">> \o f.columns) >>
    \o [i \in 1..Len(f.index) |->
          Join(<<DigitsToStr(IntToDigits(f.index[i]))>>
               \o [j \in 1..Len(f.columns) |-> CellText(f.col[f.columns[j]][i])])]

\* hist_data.round(2): every float cell to the nearest hundredth
RoundCell(c) ==
    IF c.kind # "float" \/ c.d = 1 THEN c
    ELSE FloatCell((IF c.n < 0 THEN -1 ELSE 1) * HalfEven(Abs(c.n), c.d), 1)

Round2Frame(f) ==
    [f EXCEPT !.col = [c \in DOMAIN @ |-> [i \in 1..Len(@[c]) |-> RoundCell(@[c][i])]]]

\* A fetched series of n daily records: Open/High/Low/Close/Volume per date.
\* shape 0 is a constant close of base; shape 1 rises by a dollar a day;
\* shape 2 steps up by ten dollars after the first step records
PriceColumns == <<"Open", "High", "Low", "Close", "Volume">>

CloseAt(shape, base, step, i) ==
    CASE shape = 0 -> base
      [] shape = 1 -> base + 100 * i
      [] shape = 2 -> IF i <= step THEN base ELSE base + 1000

Series(n, shape, base, step) ==
    DataFrame(PriceColumns, [i \in 1..n |-> 19000 + i],
        [c \in {"Open", "High", "Low", "Close", "Volume"} |->
            [i \in 1..n |->
                CASE c = "Open" -> FloatCell(CloseAt(shape, base, step, i) - 50, 1)
                  [] c = "High" -> FloatCell(CloseAt(shape, base, step, i) + 125, 1)
                  [] c = "Low" -> FloatCell(CloseAt(shape, base, step, i) - 130, 1)
                  [] c = "Close" -> FloatCell(CloseAt(shape, base, step, i), 1)
                  [] c = "Volume" -> IntCell(1000000 + 1000 * i)]])

----------------------------------------------------------------------------
(* Data fetcher: src/app.py lines 76-94 *)

\* time_periods, lines 30-37
time_periods ==
    [p \in {"1 Month", "3 Months", "6 Months", "1 Year", "2 Years", "5 Years"} |->
        CASE p = "1 Month" -> "1mo"
          [] p = "3 Months" -> "3mo"
          [] p = "6 Months" -> "6mo"
          [] p = "1 Year" -> "1y"
          [] p = "2 Years" -> "2y"
          [] p = "5 Years" -> "5y"]

PyDict(m) == [t |-> "dict", d |-> m]

\* What the external client does when asked: each of the two requests either
\* raises an exception with a description or gives a result.
ClientRaises(desc) == [raises |-> TRUE, desc |-> desc, gives |-> PyNone]
ClientGives(x) == [raises |-> FALSE, desc |-> "", gives |-> x]

\* get_stock_data without the check of lines 88-89
get_stock_data_unchecked(tinfo, thist) ==
    IF tinfo.raises
    THEN [info |-> PyNone, hist_data |-> PyNone,
          error |-> PyStr("Error fetching data: " \o tinfo.desc),
          info_calls |-> 1, history_calls |-> 0]
    ELSE IF thist.raises
    THEN [info |-> PyNone, hist_data |-> PyNone,
          error |-> PyStr("Error fetching data: " \o thist.desc),
          info_calls |-> 1, history_calls |-> 1]
    ELSE [info |-> tinfo.gives, hist_data |-> thist.gives, error |-> PyNone,
          info_calls |-> 1, history_calls |-> 1]

\* The result (info, hist_data, error) of get_stock_data for a ticker whose
\* info request behaves as tinfo and whose history request as thist, and
\* the number of requests made of each kind.
get_stock_data(tinfo, thist) ==
    IF tinfo.raises                                               \* line 83 -> 93
    THEN [info |-> PyNone, hist_data |-> PyNone,
          error |-> PyStr("Error fetching data: " \o tinfo.desc),
          info_calls |-> 1, history_calls |-> 0]
    ELSE IF thist.raises                                          \* line 86 -> 93
    THEN [info |-> PyNone, hist_data |-> PyNone,
          error |-> PyStr("Error fetching data: " \o thist.desc),
          info_calls |-> 1, history_calls |-> 1]
    ELSE IF FrameEmpty(thist.gives)                               \* lines 88-89
    THEN [info |-> PyNone, hist_data |-> PyNone,
          error |-> PyStr("No data found for this symbol"),
          info_calls |-> 1, history_calls |-> 1]
    ELSE [info |-> tinfo.gives, hist_data |-> thist.gives, error |-> PyNone,   \* line 91
          info_calls |-> 1, history_calls |-> 1]

----------------------------------------------------------------------------
(* Company information: src/app.py lines 96-117 *)

WriteField(m, label, k) ==
    Element("write", "**" \o label \o ":** " \o PyStrOf(Get(m, k, NA)))

\* lines 98-109
CompanyFirst(m) ==
    << Element("subheader", "Company Information"),
       WriteField(m, "Company Name", "longName"),
       WriteField(m, "Sector", "sector"),
       WriteField(m, "Industry", "industry"),
       WriteField(m, "Country", "country"),
       WriteField(m, "Website", "website") >>

\* lines 110-117, for the formatted employee count
CompanyRest(m, employees) ==
    << Element("write", "**Employees:** " \o employees),
       WriteField(m, "Exchange", "exchange"),
       WriteField(m, "Currency", "currency") >>
    \o (IF Truthy(Get1(m, "longBusinessSummary"))
        THEN << Element("write", "**Business Summary:**"),
                Element("write", PyStrOf(m["longBusinessSummary"])) >>
        ELSE <<>>)

CompanyOutcome(m, employees) ==
    IF employees.exc # ""
    THEN [exc |-> employees.exc, elements |-> CompanyFirst(m)]
    ELSE [exc |-> "", elements |-> CompanyFirst(m) \o CompanyRest(m, employees.val)]

\* The elements written and the exception, if any, that ends the function:
\* the employee count goes through format_number with the default 'N/A'.
display_company_info(m) ==
    CompanyOutcome(m, format_number(Get(m, "fullTimeEmployees", NA)))

----------------------------------------------------------------------------
(* State of the script before its first run (no session key, nothing shown) *)

NoSymbol == "<unset>"                 \* 'last_symbol' not in st.session_state
NoDownload == [data |-> <<>>, file_name |-> "", mime |-> ""]
NoCalls == [info_calls |-> 0, history_calls |-> 0,
            tinfo |-> ClientGives(PyNone), thist |-> ClientGives(PyNone)]
NoMetrics == [exc |-> "pending", table |-> NoTable]

AppUnstarted ==
    /\ last_symbol = NoSymbol
    /\ stock_symbol = "AAPL"          \* line 25: value="AAPL"
    /\ selected_period = "1 Year"     \* line 42: index=3
    /\ analyze_button = FALSE
    /\ show_raw = FALSE
    /\ info = PyNone
    /\ hist_data = PyNone
    /\ error = PyNone
    /\ client = NoCalls
    /\ page = <<>>
    /\ metrics_df = NoMetrics
    /\ download = NoDownload
    /\ rendered_pair = <<>>

----------------------------------------------------------------------------
(* Formatter harness: format_currency and format_number applied to one value *)

Nines(n) == [i \in 1..n |-> 9]
OneZeros(n) == <<1>> \o Zeros(n - 1)
FifteenZeros(n) == <<1, 5>> \o Zeros(n - 2)

FormatDigits ==
    {Nines(n) : n \in 1..MaxDigits} \cup {OneZeros(n) : n \in 1..MaxDigits}
    \cup {FifteenZeros(n) : n \in 2..MaxDigits} \cup {<<0>>}

\* None, NaN, and finite numbers: integers, and the same digits with three decimals
FormatInputs ==
    {PyNone, PyNaN}
    \cup {PyNum(neg, ds, 0) : neg \in BOOLEAN, ds \in FormatDigits}
    \cup {PyNum(neg, ds \o <<9, 9, 9>>, 3) : neg \in BOOLEAN, ds \in FormatDigits}

InitFormat ==
    /\ value \in FormatInputs
    /\ currency_out = Pending
    /\ number_out = Pending
    /\ pc = "format"
    /\ AppUnstarted

FormatCurrency ==
    /\ pc = "format"
    /\ currency_out = Pending
    /\ currency_out' = format_currency(value)
    /\ UNCHANGED <<value, number_out>>
    /\ UNCHANGED appVars

FormatNumber ==
    /\ pc = "format"
    /\ number_out = Pending
    /\ number_out' = format_number(value)
    /\ UNCHANGED <<value, currency_out>>
    /\ UNCHANGED appVars

NextFormat == FormatCurrency \/ FormatNumber

SpecFormat == InitFormat /\ [][NextFormat]_vars

----------------------------------------------------------------------------
(* The script: src/app.py lines 17-46 and 287-386.  One run of the script  *)
(* is Rerun, then (when it fetches) GetStockData and one of ShowError,     *)
(* ShowResults and ShowNothing.  The emoji that prefix the messages are    *)
(* left out of the texts.                                                  *)

\* .upper() of the texts the model types into the symbol box
Upper(text) ==
    CASE text = "aapl" -> "AAPL"
      [] text = "zzzzzz" -> "ZZZZZZ"
      [] OTHER -> text

SymbolTexts == {"", "aapl", "AAPL", "zzzzzz"}
Periods == DOMAIN time_periods

ExcDescs == {"", "HTTP Error 404: Not Found"}

\* metadata the client may give: none, everything, and a quote that lacks
\* the employee count or the volume
ClientInfos ==
    { [k \in {} |-> PyNone],
      FullInfo,
      Restrict(FullInfo, DOMAIN FullInfo \ {"fullTimeEmployees"}),
      Restrict(FullInfo, DOMAIN FullInfo \ {"volume"}) }

ClientFrames == {Series(n, 1, 15000, 0) : n \in 0..MaxAppRows}

NotAsked == ClientGives(PyNone)

TickerInfoOutcomes ==
    {ClientRaises(d) : d \in ExcDescs} \cup {ClientGives(PyDict(m)) : m \in ClientInfos}

TickerHistoryOutcomes ==
    {ClientRaises(d) : d \in ExcDescs} \cup {ClientGives(f) : f \in ClientFrames}

\* lines 18-19
PageTop ==
    << Element("title", "Stock Analysis Tool"),
       Element("markdown", "Get comprehensive financial data and analysis for any stock symbol") >>

\* lines 378-386
Footer ==
    << Element("divider", ""),
       Element("markdown", "Stock Analysis Tool | Data provided by Yahoo Finance") >>

\* lines 343-375
Welcome ==
    << Element("info", "Enter a stock symbol in the sidebar and click 'Analyze Stock' to get started!"),
       Element("subheader", "Popular Stock Symbols"),
       Element("write", "**Technology:**"), Element("write", "**Finance:**"),
       Element("write", "**Healthcare:**"), Element("write", "**Consumer:**") >>

\* the banner without the hint of line 297
ErrorBannerOnly(e) == << Element("error", e.s) >>

\* lines 296-297
ErrorElements(e) ==
    << Element("error", e.s),
       Element("info", "Please check the stock symbol and try again. Make sure it's a valid ticker symbol (e.g., AAPL, GOOGL, TSLA).") >>

\* line 288 without the analyze button
ShouldFetchOnChange(symbol, button, last) ==
    symbol # "" /\ (last = NoSymbol \/ last # symbol)

\* line 288
ShouldFetch(symbol, button, last) ==
    symbol # "" /\ (button \/ last = NoSymbol \/ last # symbol)

RunOver == {"unstarted", "welcome", "error_displayed", "rendered", "blank", "crashed"}

\* The script starts over with the widgets' values.  The first run has the
\* widgets' defaults.  Lines 23-46, 288-290 and, in the else branch, 341-386.
Rerun(text, period, button) ==
    /\ pc \in RunOver
    /\ pc = "unstarted" => text = "AAPL" /\ period = "1 Year" /\ ~button
    /\ stock_symbol' = Upper(text)
    /\ selected_period' = period
    /\ analyze_button' = button
    /\ show_raw' = FALSE
    /\ info' = PyNone
    /\ hist_data' = PyNone
    /\ error' = PyNone
    /\ client' = NoCalls
    /\ metrics_df' = NoMetrics
    /\ download' = NoDownload
    /\ IF ShouldFetch(Upper(text), button, last_symbol)
       THEN /\ last_symbol' = Upper(text)
            /\ page' = PageTop
            /\ pc' = "fetching"
       ELSE /\ last_symbol' = last_symbol
            /\ page' = PageTop \o Welcome \o Footer
            /\ pc' = "welcome"
    /\ UNCHANGED rendered_pair
    /\ UNCHANGED fmtVars

\* line 293: the call of get_stock_data, with what the client does
GetStockData(tinfo, thist) ==
    /\ pc = "fetching"
    /\ tinfo.raises <=> thist = NotAsked      \* line 86 is reached only past line 83
    /\ \E r \in {get_stock_data(tinfo, thist)} :
          /\ info' = r.info
          /\ hist_data' = r.hist_data
          /\ error' = r.error
          /\ client' = [info_calls |-> r.info_calls, history_calls |-> r.history_calls,
                        tinfo |-> tinfo, thist |-> thist]
    /\ pc' = "fetched"
    /\ UNCHANGED <<last_symbol, stock_symbol, selected_period, analyze_button, show_raw,
                   page, metrics_df, download, rendered_pair>>
    /\ UNCHANGED fmtVars

\* lines 295-297, then the footer
ShowError ==
    /\ pc = "fetched"
    /\ Truthy(error)
    /\ page' = page \o ErrorElements(error) \o Footer
    /\ pc' = "error_displayed"
    /\ UNCHANGED <<last_symbol, stock_symbol, selected_period, analyze_button, show_raw,
                   info, hist_data, error, client, metrics_df, download, rendered_pair>>
    /\ UNCHANGED fmtVars

\* line 299
HasResults == Truthy(info) /\ hist_data.t # "None"

\* lines 309-323 and 326-339 for a table km that was built: the table in two
\* halves, the three charts, and the raw data with its download when the box
\* is ticked.  g is the frame after the moving-average chart.
ResultElements(km, f, g, symbol, raw) ==
    << Element("divider", ""),
       Element("subheader", "Key Financial Metrics"),
       Element("dataframe", SubSeq(km.table, 1, 10)),
       Element("dataframe", SubSeq(km.table, 11, Len(km.table))),
       Element("divider", "") >>
    \o create_price_chart(f, symbol)
    \o create_volume_chart(f, symbol)
    \o create_moving_averages_chart(f, symbol)
    \o << Element("divider", ""), Element("checkbox", "Show Raw Historical Data") >>
    \o (IF raw
        THEN << Element("subheader", "Historical Data"),
                Element("dataframe", Round2Frame(g)),
                Element("download_button", "Download Historical Data as CSV") >>
        ELSE <<>>)

\* lines 333-339
CsvDownload(g, symbol) ==
    [data |-> to_csv(g), file_name |-> symbol \o "_historical_data.csv", mime |-> "text/csv"]

\* lines 299-339, then the footer.  An exception in display_company_info or
\* display_key_metrics ends the run where it is raised: the framework shows
\* the exception and nothing after it.
ShowResults(raw) ==
    /\ pc = "fetched"
    /\ ~Truthy(error)
    /\ HasResults
    /\ \E success \in {<< Element("success", "Successfully loaded data for " \o stock_symbol) >>},
          ci \in {display_company_info(info.d)},
          km \in {display_key_metrics(info.d)},
          g \in {WithMovingAverages(hist_data)} :
          IF ci.exc # ""
          THEN /\ page' = page \o success \o ci.elements \o << Element("exception", ci.exc) >>
               /\ pc' = "crashed"
               /\ UNCHANGED <<hist_data, metrics_df, download, rendered_pair, show_raw>>
          ELSE IF km.exc # ""
          THEN /\ page' = page \o success \o ci.elements
                          \o << Element("divider", ""),
                                Element("subheader", "Key Financial Metrics"),
                                Element("exception", km.exc) >>
               /\ metrics_df' = km
               /\ pc' = "crashed"
               /\ UNCHANGED <<hist_data, download, rendered_pair, show_raw>>
          ELSE /\ page' = page \o success \o ci.elements
                          \o ResultElements(km, hist_data, g, stock_symbol, raw) \o Footer
               /\ metrics_df' = km
               /\ hist_data' = g
               /\ show_raw' = raw
               /\ download' = IF raw THEN CsvDownload(g, stock_symbol) ELSE NoDownload
               /\ rendered_pair' = <<stock_symbol, selected_period>>
               /\ pc' = "rendered"
    /\ UNCHANGED <<last_symbol, stock_symbol, selected_period, analyze_button,
                   info, error, client>>
    /\ UNCHANGED fmtVars

\* neither `if error` nor `elif info and hist_data is not None`: only the footer
ShowNothing ==
    /\ pc = "fetched"
    /\ ~Truthy(error)
    /\ ~HasResults
    /\ page' = page \o Footer
    /\ pc' = "blank"
    /\ UNCHANGED <<last_symbol, stock_symbol, selected_period, analyze_button, show_raw,
                   info, hist_data, error, client, metrics_df, download, rendered_pair>>
    /\ UNCHANGED fmtVars

Init ==
    /\ pc = "unstarted"
    /\ AppUnstarted
    /\ value = PyNone
    /\ currency_out = Pending
    /\ number_out = Pending

Next ==
    \/ \E text \in SymbolTexts, period \in Periods, button \in BOOLEAN :
          Rerun(text, period, button)
    \/ \E tinfo \in TickerInfoOutcomes, thist \in TickerHistoryOutcomes \cup {NotAsked} :
          GetStockData(tinfo, thist)
    \/ ShowError
    \/ \E raw \in BOOLEAN : ShowResults(raw)
    \/ ShowNothing

Spec == Init /\ [][Next]_vars

----------------------------------------------------------------------------
(* Metrics harness: display_key_metrics applied to one metadata mapping *)

\* the sets of T, and each of them with one element of S added
Grow(T, S) == T \cup {t \cup {x} : t \in T, x \in S}

\* the subsets of S of at most k elements
RECURSIVE SubsetsUpTo(_, _)
SubsetsUpTo(S, k) ==
    IF k = 0 THEN {{}} ELSE Grow(SubsetsUpTo(S, k - 1), S)

\* a typical quote, one whose previous close is 0.00 and one whose day low is 0.00
BaseInfos ==
    { FullInfo,
      [FullInfo EXCEPT !.previousClose = FromInt(0, 2)],
      [FullInfo EXCEPT !.dayLow = FromInt(0, 2)] }

\* mappings that lack at most MaxMissing of the fields read, and mappings
\* that have at most MaxMissing of them
MetricInfos ==
    {Restrict(b, DOMAIN b \ S) : b \in BaseInfos, S \in SubsetsUpTo(MetricFields, MaxMissing)}
    \cup {Restrict(b, S) : b \in BaseInfos, S \in SubsetsUpTo(MetricFields, MaxMissing)}

InitMetrics ==
    /\ pc = "metrics"
    /\ info \in {PyDict(m) : m \in MetricInfos}
    /\ metrics_df = NoMetrics
    /\ last_symbol = NoSymbol
    /\ stock_symbol = "AAPL"
    /\ selected_period = "1 Year"
    /\ analyze_button = FALSE
    /\ show_raw = FALSE
    /\ hist_data = PyNone
    /\ error = PyNone
    /\ client = NoCalls
    /\ page = <<>>
    /\ download = NoDownload
    /\ rendered_pair = <<>>
    /\ value = PyNone
    /\ currency_out = Pending
    /\ number_out = Pending

DisplayKeyMetrics ==
    /\ pc = "metrics"
    /\ metrics_df' = display_key_metrics(info.d)
    /\ pc' = "metrics_done"
    /\ UNCHANGED <<last_symbol, stock_symbol, selected_period, analyze_button, show_raw,
                   info, hist_data, error, client, page, download, rendered_pair>>
    /\ UNCHANGED fmtVars

NextMetrics == DisplayKeyMetrics

SpecMetrics == InitMetrics /\ [][NextMetrics]_vars

----------------------------------------------------------------------------
(* Moving-average harness: create_moving_averages_chart applied to one series *)

MAFrames ==
    {Series(n, 0, base, 0) : n \in 0..MaxRows, base \in {10000, 25050}}
    \cup {Series(n, 1, 10000, 0) : n \in 0..MaxRows}
    \cup {Series(n, 2, 10000, step) : n \in 0..MaxRows, step \in {10, 30}}

InitMA ==
    /\ pc = "ma"
    /\ hist_data \in MAFrames
    /\ info = PyNone
    /\ metrics_df = NoMetrics
    /\ last_symbol = NoSymbol
    /\ stock_symbol = "AAPL"
    /\ selected_period = "1 Year"
    /\ analyze_button = FALSE
    /\ show_raw = FALSE
    /\ error = PyNone
    /\ client = NoCalls
    /\ page = <<>>
    /\ download = NoDownload
    /\ rendered_pair = <<>>
    /\ value = PyNone
    /\ currency_out = Pending
    /\ number_out = Pending

CreateMovingAveragesChart ==
    /\ pc = "ma"
    /\ page' = create_moving_averages_chart(hist_data, stock_symbol)
    /\ hist_data' = WithMovingAverages(hist_data)
    /\ pc' = "ma_done"
    /\ UNCHANGED <<last_symbol, stock_symbol, selected_period, analyze_button, show_raw,
                   info, error, client, metrics_df, download, rendered_pair>>
    /\ UNCHANGED fmtVars

NextMA == CreateMovingAveragesChart

SpecMA == InitMA /\ [][NextMA]_vars

----------------------------------------------------------------------------
(* Properties *)

HasKind(k) == \E i \in 1..Len(page) : page[i].kind = k

CountKind(k) == Cardinality({i \in 1..Len(page) : page[i].kind = k})

HasElement(k, text) == \E i \in 1..Len(page) : page[i].kind = k /\ page[i].body = text

\* the run fetched and is over
FetchRunOver == pc \in {"error_displayed", "rendered", "blank", "crashed"}

(* ---- C2 ---- *)

\* the ladder of format_currency as the specification states it: the suffix
\* by the unrounded magnitude, then the scaled value with two decimals
LadderCurrency(v) ==
    "$" \o (CASE AbsGE10(v, 12) -> Fixed2(Div10(v, 12), FALSE) \o "T"
              [] ~AbsGE10(v, 12) /\ AbsGE10(v, 9) -> Fixed2(Div10(v, 9), FALSE) \o "B"
              [] ~AbsGE10(v, 9) /\ AbsGE10(v, 6) -> Fixed2(Div10(v, 6), FALSE) \o "M"
              [] ~AbsGE10(v, 6) -> Fixed2(v, TRUE))

LadderNumber(v) ==
    CASE AbsGE10(v, 9) -> Fixed2(Div10(v, 9), FALSE) \o "B"
      [] ~AbsGE10(v, 9) /\ AbsGE10(v, 6) -> Fixed2(Div10(v, 6), FALSE) \o "M"
      [] ~AbsGE10(v, 6) /\ AbsGE10(v, 3) -> Fixed2(Div10(v, 3), FALSE) \o "K"
      [] ~AbsGE10(v, 3) -> Fixed2(v, TRUE)

\* C2: format_currency and format_number never raise on None, NaN or a finite
\* number; None and NaN give "N/A"; a number gives the text of the threshold
\* ladder, the suffix chosen from the unrounded magnitude and the sign kept:
\* 999,999,999,999 gives "$1000.00B", 1,000,000,000,000 gives "$1.00T",
\* 1,500 gives "1.50K", -1,500 gives "-1.50K".
C2_FormattersTotalAndLadder ==
    /\ currency_out # Pending =>
          /\ currency_out.exc = ""
          /\ IsNA(value) => currency_out.val = "N/A"
          /\ IsNum(value) => currency_out.val = LadderCurrency(value)
          /\ value = PyNum(FALSE, Nines(12), 0) => currency_out.val = "$1000.00B"
          /\ value = PyNum(FALSE, OneZeros(13), 0) => currency_out.val = "$1.00T"
          /\ value = PyNum(TRUE, OneZeros(13), 0) => currency_out.val = "$-1.00T"
          /\ value = PyNum(FALSE, Nines(3) \o <<9, 9, 9>>, 3) => currency_out.val = "$1,000.00"
    /\ number_out # Pending =>
          /\ number_out.exc = ""
          /\ IsNA(value) => number_out.val = "N/A"
          /\ IsNum(value) => number_out.val = LadderNumber(value)
          /\ value = PyNum(FALSE, FifteenZeros(4), 0) => number_out.val = "1.50K"
          /\ value = PyNum(TRUE, FifteenZeros(4), 0) => number_out.val = "-1.50K"
          /\ value = PyNum(FALSE, Nines(9), 0) => number_out.val = "1000.00M"

\* both formatters have run on 999,999,999,999, just under the trillion threshold
C2_Witness ==
    /\ value = PyNum(FALSE, Nines(12), 0)
    /\ currency_out = Returned("$1000.00B")
    /\ number_out = Returned("1000.00B")

(* ---- C5 ---- *)

\* C5: get_stock_data returns one of two shapes.  When neither request raised
\* and the series is not empty: the client's metadata and series, no error,
\* one request each.  Otherwise (None, None, reason): "No data found for this
\* symbol" for an empty series, and the exception's description when a
\* request raised (the history is not requested after the info request raised).
C5_FetchResultShape ==
    pc = "fetched" =>
       /\ client.info_calls = 1
       /\ client.history_calls = (IF client.tinfo.raises THEN 0 ELSE 1)
       /\ IF ~client.tinfo.raises /\ ~client.thist.raises /\ ~FrameEmpty(client.thist.gives)
          THEN /\ error = PyNone
               /\ info = client.tinfo.gives
               /\ hist_data = client.thist.gives
               /\ Len(hist_data.index) > 0
          ELSE /\ info = PyNone
               /\ hist_data = PyNone
               /\ error.t = "str"
               /\ client.tinfo.raises =>
                     error.s = "Error fetching data: " \o client.tinfo.desc
               /\ ~client.tinfo.raises /\ client.thist.raises =>
                     error.s = "Error fetching data: " \o client.thist.desc
               /\ ~client.tinfo.raises /\ ~client.thist.raises =>
                     error.s = "No data found for this symbol"

\* the client gave metadata and an empty series
C5_Witness ==
    /\ pc = "fetched"
    /\ ~client.tinfo.raises /\ ~client.thist.raises
    /\ client.tinfo.gives = PyDict(FullInfo)
    /\ FrameEmpty(client.thist.gives)
    /\ error = PyStr("No data found for this symbol")

(* ---- C6 ---- *)

ResultKinds == {"success", "dataframe", "plotly_chart", "checkbox", "download_button"}

\* C6: a run whose fetch returned an error ends with the error banner and the
\* symbol hint on the page and with no success message, company information,
\* metrics table, chart or export; it does not end in an exception, and a
\* next run that fetches can follow.
C6_ErrorRunShowsOnlyBanner ==
    (pc \in RunOver /\ Truthy(error)) =>
       /\ pc = "error_displayed"
       /\ HasElement("error", error.s)
       /\ HasElement("info", "Please check the stock symbol and try again. Make sure it's a valid ticker symbol (e.g., AAPL, GOOGL, TSLA).")
       /\ \A k \in ResultKinds \cup {"exception"} : ~HasKind(k)
       /\ ~HasElement("subheader", "Company Information")
       /\ ~HasElement("subheader", "Key Financial Metrics")
       /\ metrics_df = NoMetrics
       /\ download = NoDownload
       /\ ENABLED (Rerun(stock_symbol, selected_period, TRUE) /\ pc' = "fetching")

\* a run whose fetch failed with an exception of the client has ended
C6_Witness ==
    /\ pc = "error_displayed"
    /\ error = PyStr("Error fetching data: HTTP Error 404: Not Found")
    /\ CountKind("error") = 1

(* ---- C7 ---- *)

\* C7 as stated: a run with a non-empty symbol fetches exactly when its
\* (symbol, period) differs from that of the last run that rendered results,
\* or the analyze button was pressed.  (rendered_pair changes only when a run
\* renders, so right after Rerun it is the pair of the last rendered run.)
C7_FetchIffPairChanged ==
    (pc \in {"fetching", "welcome"} /\ stock_symbol # "") =>
       (pc = "fetching" <=>
           (analyze_button \/ <<stock_symbol, selected_period>> # rendered_pair))

\* C7 as amended: a run fetches exactly when its symbol is not empty and the
\* button was pressed, or no run has fetched yet, or the symbol differs from
\* the symbol of the last run that started a fetch.  last_symbol is that
\* symbol: it is set when a fetch starts, whatever the fetch returns, and
\* the period is not compared.
C7_FetchIffSymbolChanged ==
    [][ (pc \in RunOver /\ pc' \in {"fetching", "welcome"}) =>
           /\ pc' = "fetching" <=>
                 /\ stock_symbol' # ""
                 /\ \/ analyze_button'
                    \/ last_symbol = NoSymbol
                    \/ stock_symbol' # last_symbol
           /\ last_symbol' = (IF pc' = "fetching" THEN stock_symbol' ELSE last_symbol)
      ]_vars

\* the period alone was changed after a rendered run, and the run does not fetch
C7_Witness ==
    /\ pc = "welcome"
    /\ stock_symbol # ""
    /\ ~analyze_button
    /\ Len(rendered_pair) = 2
    /\ rendered_pair[1] = stock_symbol
    /\ rendered_pair[2] # selected_period

(* ---- C8 ---- *)

\* C8, its last clause: no run that fetched ends showing neither the results
\* (which start with the success message) nor the error banner.
C8_FetchRunShowsResultsOrError ==
    FetchRunOver => (HasKind("success") \/ HasKind("error"))

(* ---- C10 ---- *)

\* C10: the CSV offered for download is the series as the client gave it
\* (the same records, the fetched columns only), named
\* {SYMBOL}_historical_data.csv with type text/csv.
C10_ExportIsFetchedSeries ==
    (pc = "rendered" /\ show_raw) =>
       /\ download.data = to_csv(client.thist.gives)
       /\ download.file_name = stock_symbol \o "_historical_data.csv"
       /\ download.mime = "text/csv"

(* ---- C1 ---- *)

\* the fields a row of the metrics table is computed from
RowSources ==
    << {"currentPrice", "regularMarketPrice"}, {"previousClose"},
       {"currentPrice", "regularMarketPrice", "previousClose"},
       {"currentPrice", "regularMarketPrice", "previousClose"},
       {"dayLow", "dayHigh"}, {"fiftyTwoWeekLow", "fiftyTwoWeekHigh"},
       {"volume"}, {"averageVolume"}, {"marketCap"}, {"enterpriseValue"},
       {"trailingPE"}, {"forwardPE"}, {"priceToBook"},
       {"priceToSalesTrailing12Months"}, {"dividendYield"}, {"beta"},
       {"trailingEps"}, {"totalRevenue"}, {"profitMargins"}, {"operatingMargins"} >>

\* a source of row i is absent from m; the current price is absent when both
\* currentPrice and its fallback regularMarketPrice are
RowAbsent(m, i) ==
    \/ \E k \in RowSources[i] \ {"currentPrice", "regularMarketPrice"} : k \notin DOMAIN m
    \/ /\ "currentPrice" \in RowSources[i]
       /\ "currentPrice" \notin DOMAIN m
       /\ "regularMarketPrice" \notin DOMAIN m

\* m with its absent fields filled in from the typical quote; an absent
\* currentPrice stays absent when the fallback is present, so that the
\* current price is the same
Completed(m) ==
    [k \in DOMAIN FullInfo \ (IF "currentPrice" \notin DOMAIN m /\ "regularMarketPrice" \in DOMAIN m
                              THEN {"currentPrice"} ELSE {})
        |-> IF k \in DOMAIN m THEN m[k] ELSE FullInfo[k]]

\* no field of m is zero
NoZeroField(m) == \A k \in DOMAIN m : IsNum(m[k]) => ~IsZero(m[k])

\* C1: for a metadata mapping with any subset of the metric fields absent (and
\* no zero among the present ones), display_key_metrics raises no exception
\* and gives the table of 20 rows with the same labels in the same order; a
\* row with an absent source shows "N/A"; a row whose sources are present
\* shows what it shows when no field is absent.
C1_MissingFieldsDegrade ==
    (pc = "metrics_done" /\ NoZeroField(info.d)) =>
       /\ metrics_df.exc = ""
       /\ Len(metrics_df.table) = 20
       /\ \A i \in 1..20 :
             /\ metrics_df.table[i][1] = MetricLabels[i]
             /\ RowAbsent(info.d, i) => metrics_df.table[i][2] = "N/A"
             /\ ~RowAbsent(info.d, i) =>
                   metrics_df.table[i][2] = MetricCells(Completed(info.d))[i].val

(* ---- C3 ---- *)

\* C3: when the current price (currentPrice, else regularMarketPrice) and the
\* previous close are both present, the table has "Price Change" =
\* current - previous as $x.xx and "Price Change (%)" = (change / previous)
\* * 100 as x.xx%: 150 and 145 give 5.00 and 3.45%.  When either is absent
\* both rows are "N/A".  No exception is raised in either case.
C3_PriceChangeRows ==
    pc = "metrics_done" =>
       /\ metrics_df.exc = ""
       /\ IF NotNA(CurrentPrice(info.d)) /\ "previousClose" \in DOMAIN info.d
          THEN /\ metrics_df.table[3][2] =
                     "$" \o Fixed2(Sub(CurrentPrice(info.d), info.d["previousClose"]), FALSE)
               /\ metrics_df.table[4][2] =
                     Fixed2Ratio(PyRatio(
                        (ToInt(CurrentPrice(info.d)) - ToInt(info.d["previousClose"])) * 100,
                        ToInt(info.d["previousClose"]))) \o "%"
               /\ (CurrentPrice(info.d) = FromInt(15000, 2)
                     /\ info.d["previousClose"] = FromInt(14500, 2)) =>
                        /\ metrics_df.table[3][2] = "$5.00"
                        /\ metrics_df.table[4][2] = "3.45%"
          ELSE /\ metrics_df.table[3][2] = "N/A"
               /\ metrics_df.table[4][2] = "N/A"

(* ---- C4 ---- *)

\* the text of a range row as the specification states it
RangeText(m, low, high) ==
    IF low \in DOMAIN m /\ high \in DOMAIN m
    THEN "$" \o PyStrOf(m[low]) \o " - $" \o PyStrOf(m[high])
    ELSE "N/A"

\* C4: in the table that display_key_metrics builds, "Day Range" shows
\* "$low - $high" exactly when dayLow and dayHigh are both present and "N/A"
\* otherwise, and "52 Week Range" does the same with fiftyTwoWeekLow and
\* fiftyTwoWeekHigh; a range with one bound is never shown.
C4_RangesWhenBothBounds ==
    (pc = "metrics_done" /\ metrics_df.exc = "") =>
       /\ metrics_df.table[5][2] = RangeText(info.d, "dayLow", "dayHigh")
       /\ metrics_df.table[6][2] = RangeText(info.d, "fiftyTwoWeekLow", "fiftyTwoWeekHigh")

(* ---- C9 ---- *)

\* the sum of the cells lo..hi of a column
RECURSIVE SumRange(_, _, _)
SumRange(xs, lo, hi) == IF lo > hi THEN 0 ELSE xs[hi].n + SumRange(xs, lo, hi - 1)

\* column name of the frame is the trailing mean of its Close over w records:
\* undefined at the first w - 1 records, and the mean of the w closes that
\* end at the record from the w-th on
TrailingMean(f, name, w) ==
    /\ Len(f.col[name]) = Len(f.index)
    /\ \A i \in 1..Len(f.index) :
          IF i < w
          THEN f.col[name][i] = NaNCell
          ELSE /\ f.col[name][i].kind = "float"
               /\ f.col[name][i].n * w = SumRange(f.col["Close"], i - w + 1, i) * f.col[name][i].d

\* C9: after create_moving_averages_chart, MA20 at record i is the mean of
\* the closes of records i-19..i and is undefined for the first 19 records,
\* MA50 is the mean of the closes of records i-49..i and is undefined for the
\* first 49; on a series whose closes all equal V every defined value is V.
C9_MovingAverages ==
    pc = "ma_done" =>
       /\ TrailingMean(hist_data, "MA20", 20)
       /\ TrailingMean(hist_data, "MA50", 50)
       /\ \A i \in 1..Len(hist_data.index) : \A name \in {"MA20", "MA50"} :
             ((\A j \in 1..Len(hist_data.index) :
                   hist_data.col["Close"][j] = hist_data.col["Close"][1])
               /\ hist_data.col[name][i] # NaNCell)
             => hist_data.col[name][i].n =
                   hist_data.col["Close"][1].n * hist_data.col[name][i].d

\* a series of at least 50 records whose closes differ has both averages:
\* defined at record 50, MA50 undefined at record 49, MA20 at record 19
C9_Witness ==
    /\ pc = "ma_done"
    /\ Len(hist_data.index) >= 50
    /\ hist_data.col["Close"][50] # hist_data.col["Close"][1]
    /\ hist_data.col["MA20"][19] = NaNCell
    /\ hist_data.col["MA20"][20].kind = "float"
    /\ hist_data.col["MA50"][49] = NaNCell
    /\ hist_data.col["MA50"][50].kind = "float"

====
